---- MODULE Spec2Model ----
(***************************************************************************)
(* AudioRouter: the routing control plane of the main window component     *)
(* (App.vue <script setup>, src/unnamed/part_001) and unwrap() of          *)
(* src/AudioRouter/src/utils/ipc.ts, as a state machine.                   *)
(*                                                                         *)
(* One action per handler: the mount sequence (onMounted and each of its   *)
(* resumptions after an await), the button and form handlers, the          *)
(* continuation of every IPC command and the two lifecycle event           *)
(* listeners.  A handler runs to its next await atomically (one JS task    *)
(* plus the Vue watcher flush that follows it).                            *)
(***************************************************************************)
EXTENDS Integers, Sequences, FiniteSets, TLC

\* ------------------------------------------------------------------ bounds
MaxDevices == 2     \* devices the engine ever reports
MaxInflight == 1    \* start_routing / stop_routing calls awaiting a reply, per command
MaxEvents == 1      \* lifecycle events emitted and not yet handled
MaxSaves == 2       \* save_routing_config calls followed past their issue
MaxCommits == 1     \* settings commits (updateGeneralConfig calls) in progress

\* ------------------------------------------------------- the environment
\* Device ids in the engine's enumeration order, and each device's label.
AllIds == <<"A", "B", "C", "D">>
Ids == {AllIds[i] : i \in 1..MaxDevices}

DeviceName(id) ==
    CASE id = "A" -> "zLine"
      [] id = "B" -> "Aux"
      [] id = "C" -> "Aux"
      [] OTHER    -> "mic"

\* The ChannelMixMode values the inputs are drawn from.
MixModes == {"Stereo", "Left"}

ErrorMessages == {"engine error"}

\* a.localeCompare(b): the collation rank of a label decides (case does not
\* separate "Aux" from "mic": Aux < mic < zLine).
CollationRank(name) ==
    CASE name = "Aux"   -> 1
      [] name = "mic"   -> 2
      [] name = "zLine" -> 3

LocaleCompare(a, b) == CollationRank(a) - CollationRank(b)

VARIABLES
    selectedSource,   \* ref: id of the selected source, "" when none
    target_devices,   \* ref: sequence of [id, name, enabled, mix_mode], in the engine's order
    isRunning,        \* ref: the running indicator
    statusText,       \* ref: the status message
    pc,               \* where the mount sequence stands
    watching,         \* the two save watchers are registered
    listeners,        \* lifecycle events the component is subscribed to
    engineRunning,    \* the engine: a route is active
    events,           \* lifecycle events emitted to a subscribed listener, not yet handled
    startInflight,    \* start_routing calls awaiting their reply
    stopInflight,     \* stop_routing calls awaiting their reply
    last,             \* the last step: handler, commands it issued, reply or event it consumed
    mutatedAfterLoad, \* the user has edited source/enabled/mix_mode after the initial refresh returned
    unsaved,          \* such an edit has been followed by no save_routing_config call
    unmounted,        \* onUnmounted has run: the window's controls are gone
    unlistenStart,    \* let unlistenStart: null, or what `await listen("routing-started")` gave
    unlistenStop,     \* let unlistenStop: null, or what `await listen("routing-stopped")` gave
    persistence,      \* the persistence boundary: saves awaiting completion, the stored config
    showSettings,     \* ref of App.vue: the settings editor is shown
    draftGeneral,     \* ref of SettingsModal: the editable copy of the general settings
    committedGeneral, \* the general settings the backend holds
    locale,           \* i18n.global.locale: the active interface language
    trayLabels,       \* the labels of the tray menu
    settingsPc,       \* where SettingsModal's onMounted / loadGeneralConfig stands
    commits           \* updateGeneralConfig calls in progress: stage, payload, labels

vars == <<selectedSource, target_devices, isRunning, statusText, pc, watching,
          listeners, engineRunning, events, startInflight,
          stopInflight, last, mutatedAfterLoad, unsaved,
          unmounted, unlistenStart, unlistenStop, persistence,
          showSettings, draftGeneral, committedGeneral, locale, trayLabels, settingsPc,
          commits>>

\* The state of the settings editor, and the rest but the step record.
settingsVars == <<showSettings, draftGeneral, committedGeneral, locale, trayLabels,
                  settingsPc, commits>>
windowVars == <<selectedSource, target_devices, isRunning, statusText, pc, watching,
                listeners, engineRunning, events, startInflight, stopInflight,
                mutatedAfterLoad, unsaved, unmounted, unlistenStart, unlistenStop,
                persistence>>

\* ------------------------------------------------------------- data shapes
Device(id, en, mm) == [id |-> id, name |-> DeviceName(id), enabled |-> en, mix_mode |-> mm]

\* t(key, {count}) and the `Error ...: ${e}` templates.
T(key) == [key |-> key, count |-> 0, err |-> ""]
TCount(key, n) == [key |-> key, count |-> n, err |-> ""]
ErrText_NoMessage(prefix, e) == [key |-> prefix, count |-> 0, err |-> ""]
ErrText(prefix, e) == [key |-> prefix, count |-> 0, err |-> e]

NoReply == [kind |-> "none", ok |-> TRUE, source_device |-> "", is_running |-> FALSE, error |-> ""]
Step(op, mount, sent, recv) == [op |-> op, mount |-> mount, sent |-> sent, recv |-> recv]

\* Result<T, string> of an IPC command.
Ok(data) == [status |-> "ok", data |-> data, error |-> ""]
Err(msg) == [status |-> "error", data |-> <<>>, error |-> msg]

\* unwrap(): the data of an ok result, a thrown Error(result.error) otherwise.
Unwrap(result) ==
    IF result.status = "ok"
    THEN [threw |-> FALSE, value |-> result.data, message |-> ""]
    ELSE [threw |-> TRUE, value |-> <<>>, message |-> result.error]

\* ------------------------------------------------------------ computed refs
RECURSIVE InsertByName(_, _)
InsertByName(d, s) ==
    IF s = <<>> THEN <<d>>
    ELSE IF LocaleCompare(d.name, s[1].name) < 0 THEN <<d>> \o s
    ELSE <<s[1]>> \o InsertByName(d, Tail(s))

\* [...devs].slice().sort((a, b) => a.name.localeCompare(b.name)): a stable sort of a copy.
RECURSIVE SortByName(_)
SortByName(devs) ==
    IF devs = <<>> THEN <<>>
    ELSE InsertByName(devs[Len(devs)], SortByName(SubSeq(devs, 1, Len(devs) - 1)))

sorted_target_devices(devs) == SortByName(devs)

filtered_target_devices_DropDisabled(devs, src) ==
    SelectSeq(sorted_target_devices(devs), LAMBDA d : d.id # src /\ d.enabled)

filtered_target_devices(devs, src) ==
    SelectSeq(sorted_target_devices(devs), LAMBDA d : d.id # src)

\* ------------------------------------------------------- unlisten handles
\* `let unlistenStart: any = null`.
NullHandle == [kind |-> "null", event |-> ""]

\* listen(event, handler) returns Promise<UnlistenFn>; `await` gives the UnlistenFn itself,
\* a plain function.
ListenPromise(ev) == [kind |-> "promise", event |-> ev]
Await(promise) == [kind |-> "function", event |-> promise.event]

\* `if (h) h.then((u) => u())`: skipped for null; on a promise the listener is released
\* when it resolves; a function has no `then`, so the call throws a TypeError.
ReleaseVia(h, subscribed) ==
    IF h.kind = "null" THEN [threw |-> FALSE, listeners |-> subscribed]
    ELSE IF h.kind = "promise" THEN [threw |-> FALSE, listeners |-> subscribed \ {h.event}]
    ELSE [threw |-> TRUE, listeners |-> subscribed]

\* ------------------------------------------------------------------- Init
InitWindow ==
    /\ selectedSource = ""
    /\ target_devices = <<>>
    /\ isRunning = FALSE
    /\ statusText = T("StatusReady")
    /\ pc = "setup"
    /\ watching = FALSE
    /\ listeners = {}
    /\ engineRunning \in BOOLEAN
    /\ events = <<>>
    /\ startInflight = 0
    /\ stopInflight = 0
    /\ last = Step("setup", FALSE, <<>>, NoReply)
    /\ mutatedAfterLoad = FALSE
    /\ unsaved = FALSE
    /\ unmounted = FALSE
    /\ unlistenStart = NullHandle
    /\ unlistenStop = NullHandle

\* The persistence boundary.  `observed` tells whether the specification follows the
\* save_routing_config calls past their issue (in flight, then stored or failed); where it
\* does not, a save is an output of the step that issues it and nothing more.
Persistence(observed) ==
    [observed |-> observed, issued |-> 0, inflight |-> <<>>, failed |-> FALSE,
     saved |-> [cmd |-> "none", source_id |-> "", targets |-> <<>>, outputs |-> <<>>]]

\* ------------------------------------------------------- general settings
Languages == {"en", "zh"}

\* General, cut to the language and one of its three check boxes.
GeneralSettings == [language : Languages, minimized : BOOLEAN]

\* `ref<General>({} as General)`: no field set.
EmptyGeneral == [language |-> "", minimized |-> FALSE]

\* createI18n({locale: "en", ...}) and the settings of a first run.
DefaultLocale == "en"
DefaultGeneral == [language |-> DefaultLocale, minimized |-> FALSE]

\* `language || "en"`.
LanguageOr(language) == IF language = "" THEN DefaultLocale ELSE language

\* {show: i18n.global.t("Show"), quit: i18n.global.t("Exit")} under a locale.
Labels(lang) == [show |-> <<"Show", lang>>, quit |-> <<"Exit", lang>>]

\* The settings editor before SettingsModal is mounted, over what the backend holds and
\* the language the start-up code has set.
SettingsAtStart(general, lang, trayLang) ==
    /\ showSettings = FALSE
    /\ draftGeneral = EmptyGeneral
    /\ committedGeneral = general
    /\ locale = lang
    /\ trayLabels = Labels(trayLang)
    /\ settingsPc = "setup"
    /\ commits = <<>>

Init ==
    /\ InitWindow
    /\ persistence = Persistence(FALSE)
    /\ SettingsAtStart(DefaultGeneral, DefaultLocale, DefaultLocale)

InitSave ==
    /\ InitWindow
    /\ persistence = Persistence(TRUE)
    /\ SettingsAtStart(DefaultGeneral, DefaultLocale, DefaultLocale)

InitSettings ==
    /\ InitWindow
    /\ persistence = Persistence(FALSE)
    /\ \E general \in GeneralSettings, lang \in Languages, trayLang \in Languages :
          SettingsAtStart(general, lang, trayLang)


\* ------------------------------------------------------- the command boundary
Cmd(name, src, targets, outputs) ==
    [cmd |-> name, source_id |-> src, targets |-> targets, outputs |-> outputs]

GetUiDataCmd == Cmd("get_ui_data", "", <<>>, <<>>)
StopRoutingCmd == Cmd("stop_routing", "", <<>>, <<>>)
StartRoutingCmd(src, targets) == Cmd("start_routing", src, targets, <<>>)

SaveOutputs_EnabledOnly(devs) ==
    LET en == SelectSeq(devs, LAMBDA d : d.enabled)
    IN [i \in 1..Len(en) |->
           [device_id |-> en[i].id, channel_mode |-> en[i].mix_mode, enabled |-> en[i].enabled]]

\* saveRoutingConfig(): outputs = target_devices.value.map(d => ({device_id, channel_mode, enabled})).
SaveOutputs(devs) ==
    [i \in 1..Len(devs) |->
        [device_id |-> devs[i].id, channel_mode |-> devs[i].mix_mode, enabled |-> devs[i].enabled]]

saveRoutingConfig(src, devs) == Cmd("save_routing_config", src, <<>>, SaveOutputs(devs))

\* The two watchers registered in onMounted: watch(() => selectedSource.value, ...) runs its
\* callback when the value differs, watch(() => target_devices.value, ..., {deep: true}) when
\* the array is replaced or a field of an element is written.  Their callbacks run in the
\* flush that follows the handler, the source watcher (registered first) first.
WatcherSaves(registered, oldSrc, newSrc, devsWritten, newDevs) ==
    IF ~registered THEN <<>>
    ELSE (IF oldSrc # newSrc THEN <<saveRoutingConfig(newSrc, newDevs)>> ELSE <<>>)
         \o (IF devsWritten THEN <<saveRoutingConfig(newSrc, newDevs)>> ELSE <<>>)

HasCmd(sent, name) == \E i \in 1..Len(sent) : sent[i].cmd = name

\* The initial refresh has returned (onMounted is past `await refreshUI()`).
Loaded == pc \notin {"setup", "refresh"}

\* The component is mounted: its buttons and form controls can be used.
Interactive == pc # "setup" /\ ~unmounted

\* The save_routing_config calls among the commands of a step, in the order issued.
SavesOf(sent) == SelectSeq(sent, LAMBDA c : c.cmd = "save_routing_config")

\* Bookkeeping of a step: what it issued, and whether it was a user edit of the routing
\* state.  The saves it issued are in flight from now on.
Note(step, userEdit) ==
    /\ last' = step
    /\ IF persistence.observed
       THEN /\ persistence.issued + Len(SavesOf(step.sent)) <= MaxSaves
            /\ persistence' = [persistence EXCEPT !.issued = @ + Len(SavesOf(step.sent)),
                                                  !.inflight = @ \o SavesOf(step.sent)]
       ELSE UNCHANGED persistence
    /\ mutatedAfterLoad' = (mutatedAfterLoad \/ (userEdit /\ Loaded))
    /\ unsaved' = IF HasCmd(step.sent, "save_routing_config") THEN FALSE
                  ELSE (unsaved \/ (userEdit /\ Loaded))

\* ------------------------------------------------------------- the engine
\* Device lists the engine can report: any subset of the devices, in enumeration order,
\* each enabled or not, with the default mix mode (the other modes are set in the window).
DefaultMixMode == "Stereo"

RECURSIVE SnapshotsUpTo(_)
SnapshotsUpTo(k) ==
    IF k = 0 THEN {<<>>}
    ELSE LET prev == SnapshotsUpTo(k - 1)
         IN prev \cup {Append(s, Device(AllIds[k], en, DefaultMixMode)) :
                          s \in prev, en \in BOOLEAN}

Snapshots == SnapshotsUpTo(MaxDevices)

\* get_ui_data(): the device list, whether a route is active, the configured source.
GetUiDataResults ==
    {Ok([target_devices |-> s, is_running |-> engineRunning, source_device |-> sd]) :
        s \in Snapshots, sd \in Ids \cup {""}}
    \cup {Err(m) : m \in ErrorMessages}

CommandResults == {Ok(<<>>)} \cup {Err(m) : m \in ErrorMessages}

\* emit(event): reaches the component only if it is subscribed when the event is emitted.
Emit(ev) == IF ev \in listeners THEN Append(events, ev) ELSE events
CanEmit(ev) == ev \in listeners => Len(events) < MaxEvents

\* The engine accepts start_routing / stop_routing: the route is active or not from then
\* on, and the engine emits the lifecycle event.
EngineSwitch(ev, running) ==
    /\ CanEmit(ev)
    /\ engineRunning' = running
    /\ events' = Emit(ev)

\* ------------------------------------------------------------- refreshUI
RefreshSource_Unsorted(cur, uiData) ==
    IF /\ uiData.source_device # ""
       /\ \E i \in 1..Len(uiData.target_devices) :
             uiData.target_devices[i].id = uiData.source_device
    THEN uiData.source_device
    ELSE IF Len(uiData.target_devices) > 0 /\ cur = ""
    THEN uiData.target_devices[1].id
    ELSE cur

RefreshSource_NoDefault(cur, uiData) ==
    IF /\ uiData.source_device # ""
       /\ \E i \in 1..Len(uiData.target_devices) :
             uiData.target_devices[i].id = uiData.source_device
    THEN uiData.source_device
    ELSE cur

\* The source selected by a successful refresh (src/unnamed/part_001 lines 60-68).
RefreshSource(cur, uiData) ==
    IF /\ uiData.source_device # ""
       /\ \E i \in 1..Len(uiData.target_devices) :
             uiData.target_devices[i].id = uiData.source_device
    THEN uiData.source_device
    ELSE IF Len(uiData.target_devices) > 0 /\ cur = ""
    THEN sorted_target_devices(uiData.target_devices)[1].id
    ELSE cur

ReplyOf(kind, result) ==
    [kind |-> kind, ok |-> (result.status = "ok"),
     source_device |-> IF kind = "get_ui_data" /\ result.status = "ok"
                       THEN result.data.source_device ELSE "",
     is_running |-> IF kind = "get_ui_data" /\ result.status = "ok"
                    THEN result.data.is_running ELSE FALSE,
     error |-> result.error]

RefreshUIResume_ClearOnError(mount, result) ==
    LET u == Unwrap(result) IN
    IF u.threw
    THEN /\ statusText' = T("ErrorLoadingDevices")
         /\ target_devices' = <<>>
         /\ UNCHANGED <<isRunning, selectedSource>>
         /\ Note(Step("refreshUI.resume", mount,
                      WatcherSaves(watching, selectedSource, selectedSource, TRUE, <<>>),
                      ReplyOf("get_ui_data", result)), FALSE)
    ELSE LET newSrc == RefreshSource(selectedSource, u.value) IN
         /\ target_devices' = u.value.target_devices
         /\ isRunning' = u.value.is_running
         /\ selectedSource' = newSrc
         /\ statusText' = TCount("FoundDevices", Len(u.value.target_devices))
         /\ Note(Step("refreshUI.resume", mount,
                      WatcherSaves(watching, selectedSource, newSrc, TRUE, u.value.target_devices),
                      ReplyOf("get_ui_data", result)), FALSE)

\* refreshUI() from the reply of get_ui_data on: the try block's assignments, or the catch.
RefreshUIResume(mount, result) ==
    LET u == Unwrap(result) IN
    IF u.threw
    THEN /\ statusText' = T("ErrorLoadingDevices")
         /\ UNCHANGED <<target_devices, isRunning, selectedSource>>
         /\ Note(Step("refreshUI.resume", mount, <<>>, ReplyOf("get_ui_data", result)), FALSE)
    ELSE LET newSrc == RefreshSource(selectedSource, u.value) IN
         /\ target_devices' = u.value.target_devices
         /\ isRunning' = u.value.is_running
         /\ selectedSource' = newSrc
         /\ statusText' = TCount("FoundDevices", Len(u.value.target_devices))
         /\ Note(Step("refreshUI.resume", mount,
                      WatcherSaves(watching, selectedSource, newSrc, TRUE, u.value.target_devices),
                      ReplyOf("get_ui_data", result)), FALSE)

\* ------------------------------------------------------------- onMounted
OnMounted_WatchFirst ==
    /\ pc = "setup"
    /\ pc' = "refresh"
    /\ watching' = TRUE
    /\ Note(Step("onMounted", TRUE, <<GetUiDataCmd>>, NoReply), FALSE)
    /\ UNCHANGED <<selectedSource, target_devices, isRunning, statusText, listeners,
                   engineRunning, events, startInflight, stopInflight,
                   unmounted, unlistenStart, unlistenStop,
                   settingsVars>>

\* onMounted up to `await refreshUI()`: refreshUI issues get_ui_data.
OnMounted ==
    /\ pc = "setup"
    /\ pc' = "refresh"
    /\ Note(Step("onMounted", TRUE, <<GetUiDataCmd>>, NoReply), FALSE)
    /\ UNCHANGED <<selectedSource, target_devices, isRunning, statusText, watching, listeners,
                   engineRunning, events, startInflight, stopInflight,
                   unmounted, unlistenStart, unlistenStop,
                   settingsVars>>

\* The initial refresh returns; onMounted goes on to `await checkForUpdates()`.
MountRefreshReply ==
    /\ pc = "refresh"
    /\ \E result \in GetUiDataResults : RefreshUIResume(TRUE, result)
    /\ pc' = "update"
    /\ UNCHANGED <<watching, listeners, engineRunning, events, startInflight,
                   stopInflight,
                   unmounted, unlistenStart, unlistenStop,
                   settingsVars>>

\* checkForUpdates() returns: the two watchers are registered, listen("routing-started") is called.
UpdateCheckDone ==
    /\ pc = "update"
    /\ watching' = TRUE
    /\ pc' = "listenStart"
    /\ Note(Step("onMounted.watch", TRUE, <<>>, NoReply), FALSE)
    /\ UNCHANGED <<selectedSource, target_devices, isRunning, statusText, listeners,
                   engineRunning, events, startInflight, stopInflight,
                   unmounted, unlistenStart, unlistenStop,
                   settingsVars>>

\* listen("routing-started") resolves: subscribed; listen("routing-stopped") is called.
ListenStartDone ==
    /\ pc = "listenStart"
    /\ listeners' = listeners \cup {"routing-started"}
    /\ pc' = "listenStop"
    /\ unlistenStart' = Await(ListenPromise("routing-started"))
    /\ Note(Step("onMounted.listenStart", TRUE, <<>>, NoReply), FALSE)
    /\ UNCHANGED <<selectedSource, target_devices, isRunning, statusText, watching,
                   engineRunning, events, startInflight, stopInflight,
                   unmounted, unlistenStop,
                   settingsVars>>

\* listen("routing-stopped") resolves: subscribed; onMounted is over.
ListenStopDone ==
    /\ pc = "listenStop"
    /\ listeners' = listeners \cup {"routing-stopped"}
    /\ pc' = "mounted"
    /\ unlistenStop' = Await(ListenPromise("routing-stopped"))
    /\ Note(Step("onMounted.listenStop", TRUE, <<>>, NoReply), FALSE)
    /\ UNCHANGED <<selectedSource, target_devices, isRunning, statusText, watching,
                   engineRunning, events, startInflight, stopInflight,
                   unmounted, unlistenStart,
                   settingsVars>>

\* ------------------------------------------------------- the refresh button
\* @click="refreshUI".  refreshUI() does nothing before its await and the reply tells the
\* engine's state of the moment it is made, so the call and its continuation are one step.
ClickRefresh ==
    /\ Interactive
    /\ \E result \in GetUiDataResults : RefreshUIResume(FALSE, result)
    /\ UNCHANGED <<pc, watching, listeners, engineRunning, events, startInflight, stopInflight,
                   unmounted, unlistenStart, unlistenStop,
                   settingsVars>>

\* ------------------------------------------------------------ the user's edits
DeviceIds(devs) == {devs[i].id : i \in 1..Len(devs)}

\* <select v-model="selectedSource">: one option per device of sorted_target_devices.
SelectSource(id) ==
    /\ Interactive
    /\ id \in DeviceIds(sorted_target_devices(target_devices))
    /\ id # selectedSource
    /\ selectedSource' = id
    /\ Note(Step("selectSource", FALSE,
                 WatcherSaves(watching, selectedSource, id, FALSE, target_devices), NoReply), TRUE)
    /\ UNCHANGED <<target_devices, isRunning, statusText, pc, watching, listeners,
                   engineRunning, events, startInflight, stopInflight,
                   unmounted, unlistenStart, unlistenStop,
                   settingsVars>>

\* The write of a DeviceCard's v-model: the field of the device with this id.
WriteDevice(devs, id, field, value) ==
    [i \in 1..Len(devs) |-> IF devs[i].id = id THEN [devs[i] EXCEPT ![field] = value] ELSE devs[i]]

DeviceOf(devs, id) == devs[CHOOSE i \in 1..Len(devs) : devs[i].id = id]

\* DeviceCard toggleEnabled, v-model:enabled="d.enabled", d of filtered_target_devices.
ToggleEnabled(id) ==
    /\ Interactive
    /\ id \in DeviceIds(filtered_target_devices(target_devices, selectedSource))
    /\ LET devs == WriteDevice(target_devices, id, "enabled",
                               ~DeviceOf(target_devices, id).enabled) IN
       /\ target_devices' = devs
       /\ Note(Step("toggleEnabled", FALSE,
                    WatcherSaves(watching, selectedSource, selectedSource, TRUE, devs),
                    NoReply), TRUE)
    /\ UNCHANGED <<selectedSource, isRunning, statusText, pc, watching, listeners,
                   engineRunning, events, startInflight, stopInflight,
                   unmounted, unlistenStart, unlistenStop,
                   settingsVars>>

\* DeviceCard updateMixMode, v-model:mix-mode="d.mix_mode"; the select is disabled
\* while the device is not enabled, and reports a change of value only.
SetMixMode(id, mm) ==
    /\ Interactive
    /\ id \in DeviceIds(filtered_target_devices(target_devices, selectedSource))
    /\ DeviceOf(target_devices, id).enabled
    /\ DeviceOf(target_devices, id).mix_mode # mm
    /\ LET devs == WriteDevice(target_devices, id, "mix_mode", mm) IN
       /\ target_devices' = devs
       /\ Note(Step("updateMixMode", FALSE,
                    WatcherSaves(watching, selectedSource, selectedSource, TRUE, devs),
                    NoReply), TRUE)
    /\ UNCHANGED <<selectedSource, isRunning, statusText, pc, watching, listeners,
                   engineRunning, events, startInflight, stopInflight,
                   unmounted, unlistenStart, unlistenStop,
                   settingsVars>>

\* ------------------------------------------------------ startRouting / stopRouting
StartTargets_KeepSource(devs, src) ==
    LET en == SelectSeq(sorted_target_devices(devs), LAMBDA d : d.enabled)
    IN [i \in 1..Len(en) |-> <<en[i].id, en[i].mix_mode>>]

StartTargets_KeepDisabled(devs, src) ==
    LET all == filtered_target_devices(devs, src)
    IN [i \in 1..Len(all) |-> <<all[i].id, all[i].mix_mode>>]

\* filtered_target_devices.value.filter(d => d.enabled).map(d => [d.id, d.mix_mode]).
StartTargets(devs, src) ==
    LET en == SelectSeq(filtered_target_devices(devs, src), LAMBDA d : d.enabled)
    IN [i \in 1..Len(en) |-> <<en[i].id, en[i].mix_mode>>]

\* The Start button (v-if="!isRunning"): startRouting() up to its return or its await.
StartRouting ==
    /\ Interactive
    /\ ~isRunning
    /\ LET targets == StartTargets(target_devices, selectedSource) IN
       IF Len(targets) = 0
       THEN /\ statusText' = T("SelectDevice")
            /\ Note(Step("startRouting", FALSE, <<>>, NoReply), FALSE)
            /\ UNCHANGED startInflight
       ELSE /\ startInflight < MaxInflight
            /\ statusText' = T("Starting")
            /\ startInflight' = startInflight + 1
            /\ Note(Step("startRouting", FALSE,
                         <<StartRoutingCmd(selectedSource, targets)>>, NoReply), FALSE)
    /\ UNCHANGED <<selectedSource, target_devices, isRunning, pc, watching, listeners,
                   engineRunning, events, stopInflight,
                   unmounted, unlistenStart, unlistenStop,
                   settingsVars>>

\* startRouting() from the reply of start_routing on: nothing after a success (the
\* component waits for the event), the catch after a failure.  The engine that accepted
\* the command has the route active and emits routing-started.
StartResumed(result, runningAfter) ==
    LET u == Unwrap(result) IN
    /\ isRunning' = runningAfter
    /\ IF u.threw
       THEN /\ statusText' = ErrText("Error starting", u.message)
            /\ UNCHANGED <<engineRunning, events>>
       ELSE /\ EngineSwitch("routing-started", TRUE)
            /\ UNCHANGED statusText
    /\ Note(Step("startRouting.resume", FALSE, <<>>, ReplyOf("start_routing", result)), FALSE)

StartReply_Optimistic ==
    /\ startInflight > 0
    /\ startInflight' = startInflight - 1
    /\ \E result \in CommandResults : StartResumed(result, isRunning \/ result.status = "ok")
    /\ UNCHANGED <<selectedSource, target_devices, pc, watching, listeners, stopInflight,
                   unmounted, unlistenStart, unlistenStop,
                   settingsVars>>

StartReply ==
    /\ startInflight > 0
    /\ startInflight' = startInflight - 1
    /\ \E result \in CommandResults : StartResumed(result, isRunning)
    /\ UNCHANGED <<selectedSource, target_devices, pc, watching, listeners, stopInflight,
                   unmounted, unlistenStart, unlistenStop,
                   settingsVars>>

\* The Stop button (v-else): stopRouting() up to its await.
StopRouting ==
    /\ Interactive
    /\ isRunning
    /\ stopInflight < MaxInflight
    /\ statusText' = T("Stopping")
    /\ stopInflight' = stopInflight + 1
    /\ Note(Step("stopRouting", FALSE, <<StopRoutingCmd>>, NoReply), FALSE)
    /\ UNCHANGED <<selectedSource, target_devices, isRunning, pc, watching, listeners,
                   engineRunning, events, startInflight,
                   unmounted, unlistenStart, unlistenStop,
                   settingsVars>>

\* stopRouting() from the reply of stop_routing on: nothing after a success, the catch
\* after a failure.  The engine that accepted the command has no route active and emits
\* routing-stopped.
StopResumed(result, runningAfter) ==
    LET u == Unwrap(result) IN
    /\ isRunning' = runningAfter
    /\ IF u.threw
       THEN /\ statusText' = ErrText("Error stopping", u.message)
            /\ UNCHANGED <<engineRunning, events>>
       ELSE /\ EngineSwitch("routing-stopped", FALSE)
            /\ UNCHANGED statusText
    /\ Note(Step("stopRouting.resume", FALSE, <<>>, ReplyOf("stop_routing", result)), FALSE)

StopReply_Optimistic ==
    /\ stopInflight > 0
    /\ stopInflight' = stopInflight - 1
    /\ \E result \in CommandResults : StopResumed(result, isRunning /\ result.status # "ok")
    /\ UNCHANGED <<selectedSource, target_devices, pc, watching, listeners, startInflight,
                   unmounted, unlistenStart, unlistenStop,
                   settingsVars>>

StopReply ==
    /\ stopInflight > 0
    /\ stopInflight' = stopInflight - 1
    /\ \E result \in CommandResults : StopResumed(result, isRunning)
    /\ UNCHANGED <<selectedSource, target_devices, pc, watching, listeners, startInflight,
                   unmounted, unlistenStart, unlistenStop,
                   settingsVars>>

\* ------------------------------------------------------ the lifecycle listeners
EventOf(ev) == [kind |-> ev, ok |-> TRUE, source_device |-> "", is_running |-> FALSE, error |-> ""]

RunningCount(devs, src) ==
    Len(SelectSeq(filtered_target_devices(devs, src), LAMBDA d : d.enabled))

\* listen("routing-started", ...).
OnRoutingStarted ==
    /\ events # <<>>
    /\ Head(events) = "routing-started"
    /\ events' = Tail(events)
    /\ isRunning' = TRUE
    /\ statusText' = TCount("RunningOn", RunningCount(target_devices, selectedSource))
    /\ Note(Step("routing-started", FALSE, <<>>, EventOf("routing-started")), FALSE)
    /\ UNCHANGED <<selectedSource, target_devices, pc, watching, listeners, engineRunning,
                   startInflight, stopInflight,
                   unmounted, unlistenStart, unlistenStop,
                   settingsVars>>

\* listen("routing-stopped", ...).
OnRoutingStopped ==
    /\ events # <<>>
    /\ Head(events) = "routing-stopped"
    /\ events' = Tail(events)
    /\ isRunning' = FALSE
    /\ statusText' = T("StatusReady")
    /\ Note(Step("routing-stopped", FALSE, <<>>, EventOf("routing-stopped")), FALSE)
    /\ UNCHANGED <<selectedSource, target_devices, pc, watching, listeners, engineRunning,
                   startInflight, stopInflight,
                   unmounted, unlistenStart, unlistenStop,
                   settingsVars>>

\* ------------------------------------------------- saveRoutingConfig, resumed
RemoveAt(q, i) == SubSeq(q, 1, i - 1) \o SubSeq(q, i + 1, Len(q))

\* The backend ends the i-th save in flight: its payload is the stored configuration from
\* then on, unless the save failed.
Completed(i, failed) ==
    [persistence EXCEPT !.inflight = RemoveAt(@, i),
                        !.saved = IF failed THEN @ ELSE persistence.inflight[i],
                        !.failed = @ \/ failed]

\* One of the save_routing_config calls in flight completes, in any order: the backend
\* stores its payload, or fails and saveRoutingConfig's catch logs the error.
SaveDone ==
    /\ persistence.observed
    /\ \E i \in 1..Len(persistence.inflight), result \in CommandResults :
          LET u == Unwrap(result) IN
          /\ persistence' = Completed(i, u.threw)
          /\ last' = Step("saveRoutingConfig.resume", FALSE, <<>>,
                          ReplyOf("save_routing_config", result))
    /\ UNCHANGED <<selectedSource, target_devices, isRunning, statusText, pc, watching,
                   listeners, engineRunning, events, startInflight, stopInflight,
                   mutatedAfterLoad, unsaved, unmounted, unlistenStart, unlistenStop,
                   settingsVars>>

\* ------------------------------------------------------------- onUnmounted
\* onUnmounted: the first release that throws ends the hook.
OnUnmounted ==
    /\ pc # "setup"
    /\ ~unmounted
    /\ unmounted' = TRUE
    /\ LET first == ReleaseVia(unlistenStart, listeners)
           second == IF first.threw THEN first ELSE ReleaseVia(unlistenStop, first.listeners)
       IN listeners' = second.listeners
    /\ Note(Step("onUnmounted", FALSE, <<>>, NoReply), FALSE)
    /\ UNCHANGED <<selectedSource, target_devices, isRunning, statusText, pc, watching,
                   engineRunning, events, startInflight, stopInflight,
                   unlistenStart, unlistenStop, settingsVars>>

\* ------------------------------------------------------------ SettingsModal
\* get_config(): the configuration the backend holds.
GetConfigResults == {Ok([general |-> committedGeneral])} \cup {Err(m) : m \in ErrorMessages}

\* A step of the settings editor: it writes none of the window's routing state.
SettingsStep(op, recv) ==
    /\ last' = Step(op, FALSE, <<>>, recv)
    /\ UNCHANGED windowVars

\* SettingsModal's onMounted: loadGeneralConfig() up to its await.
ModalMounted ==
    /\ settingsPc = "setup"
    /\ settingsPc' = "loading"
    /\ SettingsStep("loadGeneralConfig", NoReply)
    /\ UNCHANGED <<showSettings, draftGeneral, committedGeneral, locale, trayLabels, commits>>

\* loadGeneralConfig() from the reply of get_config on: the draft is a copy of
\* config.general, or the catch logs the error and the draft stays what it is.
LoadGeneralConfigResume ==
    /\ settingsPc = "loading"
    /\ \E result \in GetConfigResults :
          LET u == Unwrap(result) IN
          /\ draftGeneral' = IF u.threw THEN draftGeneral ELSE u.value.general
          /\ settingsPc' = IF u.threw THEN "loadFailed" ELSE "loaded"
          /\ SettingsStep("loadGeneralConfig.resume", ReplyOf("get_config", result))
    /\ UNCHANGED <<showSettings, committedGeneral, locale, trayLabels, commits>>

\* The settings button of the window: @click="showSettings = true".
OpenSettings ==
    /\ settingsPc # "setup"
    /\ ~showSettings
    /\ showSettings' = TRUE
    /\ SettingsStep("openSettings", NoReply)
    /\ UNCHANGED <<draftGeneral, committedGeneral, locale, trayLabels, settingsPc, commits>>

\* The close button or a click on the backdrop: emit("close"), @close="showSettings = false".
CloseSettings ==
    /\ showSettings
    /\ showSettings' = FALSE
    /\ SettingsStep("closeSettings", NoReply)
    /\ UNCHANGED <<draftGeneral, committedGeneral, locale, trayLabels, settingsPc, commits>>

\* <select v-model="draftGeneral.language">, one option per available language.
SetDraftLanguage(lang) ==
    /\ showSettings
    /\ lang # draftGeneral.language
    /\ draftGeneral' = [draftGeneral EXCEPT !.language = lang]
    /\ SettingsStep("draft.language", NoReply)
    /\ UNCHANGED <<showSettings, committedGeneral, locale, trayLabels, settingsPc, commits>>

\* <input type="checkbox" v-model="draftGeneral.minimized">.
ToggleDraftMinimized ==
    /\ showSettings
    /\ draftGeneral' = [draftGeneral EXCEPT !.minimized = ~@]
    /\ SettingsStep("draft.minimized", NoReply)
    /\ UNCHANGED <<showSettings, committedGeneral, locale, trayLabels, settingsPc, commits>>

\* The save button: updateGeneralConfig() up to its first await; the call carries the
\* draft as it is now.
UpdateGeneralConfig ==
    /\ showSettings
    /\ Len(commits) < MaxCommits
    /\ commits' = Append(commits, [stage |-> "general", payload |-> draftGeneral,
                                    labels |-> Labels("")])
    /\ SettingsStep("updateGeneralConfig", NoReply)
    /\ UNCHANGED <<showSettings, draftGeneral, committedGeneral, locale, trayLabels,
                   settingsPc>>

\* The backend accepts update_general_config: it holds the payload from then on.
Committed(payload) == payload

UpdateGeneralResumed_LocaleOnError(i, result) ==
    LET u == Unwrap(result)
        lang == LanguageOr(draftGeneral.language) IN
    /\ locale' = lang
    /\ IF u.threw
       THEN /\ commits' = RemoveAt(commits, i)
            /\ UNCHANGED committedGeneral
       ELSE /\ committedGeneral' = Committed(commits[i].payload)
            /\ commits' = [commits EXCEPT ![i] = [@ EXCEPT !.stage = "tray",
                                                           !.labels = Labels(lang)]]
    /\ SettingsStep("updateGeneralConfig.resume", ReplyOf("update_general_config", result))
    /\ UNCHANGED <<showSettings, draftGeneral, trayLabels, settingsPc>>

\* updateGeneralConfig() from the reply of update_general_config on: the catch after a
\* failure; after a success updateAppLanguage(draft.language || "en") up to its await:
\* the locale is set, the labels are built under it, update_tray_menu is called.
UpdateGeneralResumed(i, result) ==
    LET u == Unwrap(result)
        lang == LanguageOr(draftGeneral.language) IN
    /\ IF u.threw
       THEN /\ commits' = RemoveAt(commits, i)
            /\ UNCHANGED <<committedGeneral, locale>>
       ELSE /\ committedGeneral' = Committed(commits[i].payload)
            /\ locale' = lang
            /\ commits' = [commits EXCEPT ![i] = [@ EXCEPT !.stage = "tray",
                                                           !.labels = Labels(lang)]]
    /\ SettingsStep("updateGeneralConfig.resume", ReplyOf("update_general_config", result))
    /\ UNCHANGED <<showSettings, draftGeneral, trayLabels, settingsPc>>

UpdateGeneralReply ==
    \E i \in 1..Len(commits), result \in CommandResults :
        /\ commits[i].stage = "general"
        /\ UpdateGeneralResumed(i, result)

\* updateAppLanguage() from the reply of update_tray_menu on: after a success the tray
\* shows the labels and updateGeneralConfig emits close; after a failure its catch logs.
UpdateTrayResumed(i, result) ==
    LET u == Unwrap(result) IN
    /\ commits' = RemoveAt(commits, i)
    /\ trayLabels' = IF u.threw THEN trayLabels ELSE commits[i].labels
    /\ showSettings' = IF u.threw THEN showSettings ELSE FALSE
    /\ SettingsStep("updateAppLanguage.resume", ReplyOf("update_tray_menu", result))
    /\ UNCHANGED <<draftGeneral, committedGeneral, locale, settingsPc>>

UpdateTrayReply ==
    \E i \in 1..Len(commits), result \in CommandResults :
        /\ commits[i].stage = "tray"
        /\ UpdateTrayResumed(i, result)

\* ------------------------------------------------------------ specification
Mount ==
    \/ OnMounted
    \/ MountRefreshReply
    \/ UpdateCheckDone
    \/ ListenStartDone
    \/ ListenStopDone

Edit ==
    \/ \E id \in Ids : SelectSource(id)
    \/ \E id \in Ids : ToggleEnabled(id)
    \/ \E id \in Ids, mm \in MixModes : SetMixMode(id, mm)

Lifecycle ==
    \/ StartRouting
    \/ StartReply
    \/ StopRouting
    \/ StopReply
    \/ OnRoutingStarted
    \/ OnRoutingStopped

Next == Mount \/ ClickRefresh \/ Edit \/ Lifecycle

Spec == Init /\ [][Next]_vars

\* The routing configuration alone: the mount sequence, refreshes and the user's edits.
NextConfig == Mount \/ ClickRefresh \/ Edit
SpecConfig == Init /\ [][NextConfig]_vars

\* The same, with the mount sequence running to its end: every call onMounted awaits
\* returns.  Nothing obliges the user to act.
SpecConfigLive == SpecConfig /\ WF_vars(Mount)

\* The window torn down at any moment from its mount on: the mount sequence goes on after
\* its awaits whether the component is still mounted or not.
NextTeardown == Mount \/ ClickRefresh \/ Edit \/ OnUnmounted
SpecTeardown == Init /\ [][NextTeardown]_vars

\* The settings editor.
Settings ==
    \/ ModalMounted
    \/ LoadGeneralConfigResume
    \/ OpenSettings
    \/ CloseSettings
    \/ \E lang \in Languages : SetDraftLanguage(lang)
    \/ ToggleDraftMinimized
    \/ UpdateGeneralConfig
    \/ UpdateGeneralReply
    \/ UpdateTrayReply

SpecSettings == InitSettings /\ [][Settings]_vars

\* The user's edits with the persistence boundary: every save issued stays in flight
\* until the backend completes it.
NextSave == Mount \/ Edit \/ SaveDone
SpecSave == InitSave /\ [][NextSave]_vars

\* ------------------------------------------------------------------ claims
\* What the claims talk about, stated on the state alone.
EnabledNonSource(devs, src) ==
    {devs[i].id : i \in {j \in 1..Len(devs) : devs[j].enabled /\ devs[j].id # src}}

SeqRange(q) == {q[i] : i \in 1..Len(q)}

StartsSent == {c \in SeqRange(last.sent) : c.cmd = "start_routing"}
SavesSent == {c \in SeqRange(last.sent) : c.cmd = "save_routing_config"}

StartedPending == "routing-started" \in SeqRange(events)

RefreshSucceeded(step) == step.recv.kind = "get_ui_data" /\ step.recv.ok
RefreshFailed(step) == step.recv.kind = "get_ui_data" /\ ~step.recv.ok
CommandFailed(step) == step.recv.kind \in {"start_routing", "stop_routing"} /\ ~step.recv.ok

\* C1: startRouting invoked while no device is enabled and other than the selected source
\* issues no start_routing command and leaves the running indicator at not-running and
\* everything but the status message (which becomes the select-a-device text) unchanged.
C1_NoTargetsNoStart ==
    [][(last'.op = "startRouting" /\ EnabledNonSource(target_devices, selectedSource) = {})
        => /\ last'.sent = <<>>
           /\ startInflight' = startInflight
           /\ ~isRunning /\ ~isRunning'
           /\ statusText' = T("SelectDevice")
           /\ UNCHANGED <<selectedSource, target_devices, pc, watching, listeners,
                          engineRunning, events, stopInflight>>]_vars

\* C1 witness: startRouting has run with devices present and no eligible enabled target.
C1_Witness ==
    /\ last.op = "startRouting"
    /\ Len(target_devices) > 0
    /\ \E i \in 1..Len(target_devices) : target_devices[i].enabled
    /\ EnabledNonSource(target_devices, selectedSource) = {}

\* C2: every start_routing command issued carries the selected source as source_id and, as
\* targets, (device_id, mix_mode) of exactly the devices that are enabled and are not the
\* source, each once.
C2_StartPayload ==
    \A c \in StartsSent :
        /\ c.source_id = selectedSource
        /\ SeqRange(c.targets) =
              {<<target_devices[i].id, target_devices[i].mix_mode>> :
                 i \in {j \in 1..Len(target_devices) :
                          target_devices[j].enabled /\ target_devices[j].id # selectedSource}}
        /\ Len(c.targets) = Cardinality(EnabledNonSource(target_devices, selectedSource))

\* C2 witness: a start_routing command issued while the source itself is an enabled device
\* of the list.
C2_Witness ==
    /\ StartsSent # {}
    /\ \E i \in 1..Len(target_devices) :
          target_devices[i].id = selectedSource /\ target_devices[i].enabled

\* C3 as stated: while a routing-started event of a successful start_routing awaits
\* delivery, the running indicator is not-running.
C3_Original == StartedPending => ~isRunning

\* C3 amended: the successful (or failed) return of start_routing never changes the running
\* indicator, and while a routing-started event awaits delivery the indicator turns to
\* running only in the routing-started handler or on a successful get_ui_data reply that
\* reports is_running.
C3_ReturnKeepsIndicator ==
    [][/\ last'.op = "startRouting.resume" => isRunning' = isRunning
       /\ (StartedPending /\ ~isRunning /\ isRunning')
             => \/ last'.op = "routing-started"
                \/ RefreshSucceeded(last') /\ last'.recv.is_running]_vars

\* C3 witness: start_routing has just returned success, its event awaits delivery and the
\* indicator is still not-running.
C3_Witness ==
    /\ last.op = "startRouting.resume"
    /\ last.recv.ok
    /\ StartedPending
    /\ ~isRunning

\* C4 as stated: the running indicator changes only in the handlers of the two events.
C4_Original ==
    [][isRunning' # isRunning => last'.op \in {"routing-started", "routing-stopped"}]_vars

\* C4 amended: the running indicator changes only in the routing-started handler (to
\* running), in the routing-stopped handler (to not running) or on a successful
\* get_ui_data reply (to the reported is_running); the replies of start_routing and
\* stop_routing and a failed get_ui_data never change it.
C4_IndicatorWriters ==
    [][isRunning' # isRunning
         => \/ last'.op = "routing-started" /\ isRunning'
            \/ last'.op = "routing-stopped" /\ ~isRunning'
            \/ RefreshSucceeded(last') /\ isRunning' = last'.recv.is_running]_vars

\* C4 witness: stop_routing has returned success while the indicator still shows running.
C4_Witness ==
    /\ last.op = "stopRouting.resume"
    /\ last.recv.ok
    /\ isRunning
    /\ ~engineRunning

\* C5 as stated: no save_routing_config is issued before the first edit by the user that
\* follows the initial load.
C5_Original == SavesSent # {} => mutatedAfterLoad

\* C5 amended: before the first edit by the user that follows the initial load, a
\* save_routing_config is issued only by a successful refresh of the refresh button that
\* completes after the watchers are registered; the initial refresh issues none, whether
\* it succeeds or fails.
C5_NoSaveBeforeEdit ==
    /\ (SavesSent # {} /\ ~mutatedAfterLoad)
          => (RefreshSucceeded(last) /\ ~last.mount /\ watching)
    /\ (last.op = "refreshUI.resume" /\ last.mount) => SavesSent = {}

\* C5 witness: the initial refresh has succeeded with devices and issued no save.
C5_Witness ==
    /\ last.op = "refreshUI.resume"
    /\ last.mount
    /\ last.recv.ok
    /\ Len(target_devices) > 0
    /\ selectedSource # ""
    /\ SavesSent = {}

\* C6: every edit by the user made after the initial refresh returned is eventually
\* followed by a save_routing_config call, the edits made before the watchers are
\* registered included.
C6_EveryEditSaved == unsaved ~> ~unsaved

\* C6 witness: the mount sequence is over and an edit made during it has had no save.
C6_Witness ==
    /\ pc = "mounted"
    /\ watching
    /\ unsaved
    /\ last.op = "onMounted.listenStop"

\* C7 as stated: the outputs of a save_routing_config hold an entry for a device exactly
\* when the device is enabled and is not the selected source.
C7_Original ==
    \A c \in SavesSent :
        {c.outputs[i].device_id : i \in 1..Len(c.outputs)}
            = EnabledNonSource(target_devices, selectedSource)

\* C7 amended: the outputs of a save_routing_config hold one entry {device_id,
\* channel_mode, enabled} for every device of the list, in list order, the disabled
\* devices and the selected source included, and source_id is the selected source.
C7_SaveProjectsAllDevices ==
    \A c \in SavesSent :
        /\ c.source_id = selectedSource
        /\ Len(c.outputs) = Len(target_devices)
        /\ \A i \in 1..Len(target_devices) :
              /\ c.outputs[i].device_id = target_devices[i].id
              /\ c.outputs[i].channel_mode = target_devices[i].mix_mode
              /\ c.outputs[i].enabled = target_devices[i].enabled

\* C7 witness: a save issued while the list holds the selected source and a disabled device.
C7_Witness ==
    /\ SavesSent # {}
    /\ \E i \in 1..Len(target_devices) : target_devices[i].id = selectedSource
    /\ \E i \in 1..Len(target_devices) : ~target_devices[i].enabled

\* C8: a failed get_ui_data leaves the device list, the selected source and the running
\* indicator as they were and sets the status message to the error-loading-devices text.
C8_FailedRefreshKeepsState ==
    [][RefreshFailed(last')
         => /\ UNCHANGED <<target_devices, selectedSource, isRunning>>
            /\ statusText' = T("ErrorLoadingDevices")]_vars

\* C8 witness: a refresh has failed while devices were listed and the indicator showed running.
C8_Witness ==
    /\ RefreshFailed(last)
    /\ Len(target_devices) > 0
    /\ selectedSource # ""
    /\ isRunning

\* The selection policy of the specification, section 4.1.
FirstByName(devs) ==
    LET i == CHOOSE k \in 1..Len(devs) :
                 \A j \in 1..Len(devs) :
                    \/ LocaleCompare(devs[k].name, devs[j].name) < 0
                    \/ LocaleCompare(devs[k].name, devs[j].name) = 0 /\ k <= j
    IN devs[i].id

SelectionPolicy(selected, devs, reported) ==
    IF reported # "" /\ \E i \in 1..Len(devs) : devs[i].id = reported THEN reported
    ELSE IF selected # "" /\ devs # <<>> THEN selected
    ELSE IF devs # <<>> THEN FirstByName(devs)
    ELSE selected

\* C9: after a successful refresh the selected source is the reported source if that is
\* non-empty and in the new list; otherwise the source selected before, kept even when it
\* is not in the new list; otherwise, the new list being non-empty, the device first by
\* name; and when no rule applies (empty list) it is what it was.
C9_SelectionPolicy ==
    [][RefreshSucceeded(last')
         => selectedSource' =
               SelectionPolicy(selectedSource, target_devices', last'.recv.source_device)]_vars

\* C9 witness: a refresh reporting no source has selected the device first by name, which
\* is not the first of the list.
C9_Witness ==
    /\ RefreshSucceeded(last)
    /\ last.recv.source_device = ""
    /\ Len(target_devices) > 1
    /\ selectedSource = FirstByName(target_devices)
    /\ selectedSource # target_devices[1].id

\* C10: a failed start_routing or stop_routing leaves the running indicator as it was and
\* puts the failure's message in the status text.
C10_FailedCommandKeepsIndicator ==
    [][CommandFailed(last')
         => /\ isRunning' = isRunning
            /\ statusText'.err = last'.recv.error
            /\ statusText'.err \in ErrorMessages
            /\ statusText'.key = (IF last'.recv.kind = "start_routing"
                                  THEN "Error starting" ELSE "Error stopping")]_vars

\* C10 witness: stop_routing has failed and the indicator still shows running.
C10_Witness ==
    /\ CommandFailed(last)
    /\ last.recv.kind = "stop_routing"
    /\ isRunning
    /\ statusText.key = "Error stopping"

\* The steps whose handler evaluates filtered_target_devices.
ComputesEligible(step) == step.op \in {"startRouting", "routing-started"}

\* C14: whenever the device list is non-empty the eligible target set holds every device
\* but the one whose id is the selected source, each once and as it is in the list, and
\* the handlers that compute it leave the device list, its order and every device's
\* enabled and mix_mode as they were.
C14_EligibleSet ==
    /\ [](Len(target_devices) > 0 =>
            LET f == filtered_target_devices(target_devices, selectedSource)
                keep == {i \in 1..Len(target_devices) :
                            target_devices[i].id # selectedSource}
            IN /\ SeqRange(f) = {target_devices[i] : i \in keep}
               /\ Len(f) = Cardinality(keep))
    /\ [][ComputesEligible(last') => target_devices' = target_devices]_vars

\* C14 witness: startRouting has computed the eligible set of a list that holds the
\* source and a disabled device, and whose order is not the order by name.
C14_Witness ==
    /\ last.op = "startRouting"
    /\ Len(target_devices) > 1
    /\ \E i \in 1..Len(target_devices) : target_devices[i].id = selectedSource
    /\ \E i \in 1..Len(target_devices) : ~target_devices[i].enabled
    /\ sorted_target_devices(target_devices) # target_devices

\* C18: whenever the device list is non-empty the selected source is non-empty, and no
\* start_routing command is issued with an empty source_id.
C18_SourceSelected ==
    /\ Len(target_devices) > 0 => selectedSource # ""
    /\ \A c \in StartsSent : c.source_id # ""

\* C18 witness: a start_routing command issued after a refresh that reported no source
\* and a list without the source selected before: the source is stale, and not empty.
C18_Witness ==
    /\ StartsSent # {}
    /\ selectedSource # ""
    /\ selectedSource \notin DeviceIds(target_devices)

\* C16: in every local phase of the mounted window (Idle, Starting, Running, Stopping) the
\* user can issue stop_routing; in particular between a start command and its
\* routing-started event.
C16_StopAlwaysIssuable ==
    (Interactive /\ stopInflight < MaxInflight) => ENABLED StopRouting

\* C16 witness: a start command is outstanding, the indicator shows not-running, and the
\* window offers no way to issue stop_routing.
C16_Witness ==
    /\ Interactive
    /\ startInflight > 0
    /\ stopInflight < MaxInflight
    /\ ~isRunning
    /\ ~ENABLED StopRouting

\* A start command has been issued and has neither failed nor been confirmed by a
\* delivered routing-started event.
StartOutstanding == startInflight > 0 \/ StartedPending

\* C19: while a start command is outstanding, a further start action of the user issues
\* no second start_routing command.
C19_OneStartOutstanding ==
    [][StartOutstanding => ~(last'.op = "startRouting" /\ last'.sent # <<>>)]_vars

\* C19 witness: a second start_routing command has been issued while the routing-started
\* event of the first awaits delivery.
C19_Witness ==
    /\ last.op = "startRouting"
    /\ StartsSent # {}
    /\ StartedPending
    /\ engineRunning

\* The lifecycle event the engine emitted in a step: the one of the command it accepted.
Emitted(step) ==
    IF step.recv.kind = "start_routing" /\ step.recv.ok THEN {"routing-started"}
    ELSE IF step.recv.kind = "stop_routing" /\ step.recv.ok THEN {"routing-stopped"}
    ELSE {}

\* C17: no lifecycle event the engine emits after the initial refresh has returned is
\* missed: each is queued for delivery to the window's listener, the events emitted while
\* onMounted still awaits the update check included.
C17_NoEventMissed ==
    [][Loaded => \A ev \in Emitted(last') : ev \in SeqRange(events')]_vars

\* C17 witness: the engine accepted start_routing and emitted routing-started while
\* onMounted awaited the update check; nothing is queued and the indicator shows not-running.
C17_Witness ==
    /\ pc = "update"
    /\ Emitted(last) = {"routing-started"}
    /\ engineRunning
    /\ events = <<>>
    /\ ~isRunning

\* C11: once the window is torn down, no routing-started / routing-stopped listener it
\* registered is subscribed, whether teardown comes after the mount sequence or while
\* the sequence still awaits.
C11_ListenersReleased == unmounted => listeners = {}

\* C11 witness: the window was torn down after a complete mount, both handles set, and
\* both listeners are still subscribed.
C11_Witness ==
    /\ last.op = "onUnmounted"
    /\ unlistenStart.kind = "function"
    /\ unlistenStop.kind = "function"
    /\ listeners = {"routing-started", "routing-stopped"}

\* Every save issued has completed, none failed, and no edit has gone without a save.
SavesSettled ==
    /\ persistence.inflight = <<>>
    /\ persistence.saved.cmd = "save_routing_config"
    /\ ~persistence.failed
    /\ ~unsaved

\* C15: when saves overlap and complete in any order, then once every save issued has
\* completed the stored configuration is the one of the final in-memory state.
C15_LatestStateSaved ==
    SavesSettled => persistence.saved = saveRoutingConfig(selectedSource, target_devices)

\* C15 witness: two saves were in flight, both have completed without failure, the older
\* one last: the stored configuration is not the one of the window.
C15_Witness ==
    /\ SavesSettled
    /\ last.op = "saveRoutingConfig.resume"
    /\ mutatedAfterLoad
    /\ persistence.saved # saveRoutingConfig(selectedSource, target_devices)

\* C12: closing the settings editor without saving changes neither the committed
\* settings nor the language nor the tray labels, and the editor, opened again after its
\* settings were loaded and with no commit in progress, shows the committed settings.
C12_CancelDiscardsDraft ==
    [][/\ last'.op = "closeSettings" => UNCHANGED <<committedGeneral, locale, trayLabels>>
       /\ (last'.op = "openSettings" /\ settingsPc = "loaded" /\ commits = <<>>)
             => draftGeneral' = committedGeneral']_vars

\* C12 witness: the editor is open again after a cancel, and its draft holds the abandoned
\* edit, not the committed settings.
C12_Witness ==
    /\ last.op = "openSettings"
    /\ settingsPc = "loaded"
    /\ commits = <<>>
    /\ showSettings
    /\ draftGeneral # committedGeneral

GeneralReply(step) == step.recv.kind = "update_general_config"
TrayReply(step) == step.recv.kind = "update_tray_menu"

\* C13: the committed settings, the language and the tray labels change in this order and
\* in these steps only.  The settings change when update_general_config succeeds, to its
\* payload; the language changes in that same step, after it, and update_tray_menu is then
\* in progress with the labels of the new language; the tray changes when that call
\* succeeds, to those labels.  A failed update_general_config changes none of the three and
\* calls nothing more; a failed update_tray_menu leaves the settings and the language at
\* their new values.
C13_CommitOrder ==
    [][/\ committedGeneral' # committedGeneral => GeneralReply(last') /\ last'.recv.ok
       /\ locale' # locale => GeneralReply(last') /\ last'.recv.ok
       /\ trayLabels' # trayLabels => TrayReply(last') /\ last'.recv.ok
       /\ (GeneralReply(last') /\ last'.recv.ok)
             => \E i \in 1..Len(commits) :
                   /\ commits[i].stage = "general"
                   /\ committedGeneral' = commits[i].payload
                   /\ locale' = LanguageOr(draftGeneral.language)
                   /\ commits'[i].stage = "tray"
                   /\ commits'[i].labels = Labels(locale')
                   /\ trayLabels' = trayLabels
       /\ (GeneralReply(last') /\ ~last'.recv.ok)
             => /\ UNCHANGED <<committedGeneral, locale, trayLabels>>
                /\ Len(commits') < Len(commits)
       /\ (TrayReply(last') /\ last'.recv.ok)
             => \E i \in 1..Len(commits) :
                   commits[i].stage = "tray" /\ trayLabels' = commits[i].labels
       /\ (TrayReply(last') /\ ~last'.recv.ok)
             => UNCHANGED <<committedGeneral, locale, trayLabels>>]_vars

\* C13 witness: update_tray_menu has failed after a commit that changed the language: the
\* settings and the language are the new ones, the tray labels the old ones.
C13_Witness ==
    /\ TrayReply(last)
    /\ ~last.recv.ok
    /\ locale = committedGeneral.language
    /\ trayLabels # Labels(locale)

====
